---- MODULE Spec2Model ----
(***************************************************************************)
(* galileo: a token faucet behind a chat front end.                        *)
(*                                                                         *)
(* Serve::exec (src/src/opt/serve.rs) validates the configuration, builds  *)
(* the view and custody services, synchronizes, builds the Sender, the     *)
(* Responder, the Handler and the chat client, spawns the catch-up group   *)
(* and then waits in tokio::select! for the first of three tasks to end.   *)
(* Response (src/src/responder/response.rs) is the per-request outcome.    *)
(* Handler, Responder, Sender and Catchup are constructed by Serve::exec;  *)
(* their bodies are modelled from the specification.                       *)
(***************************************************************************)
EXTENDS Integers, Sequences, FiniteSets, TLC

(***************************************************************************)
(* Bounds of the model.                                                    *)
(***************************************************************************)
MaxTargets == 2        \* catch-up targets given on the command line
MaxRequests == 2       \* requests enqueued during one run of Serve::exec
QueueCap == 2          \* capacity of the request queue
NUsers == 2            \* chat users
NHandlers == 2         \* message handler tasks running at once
MaxCalls == 4          \* calls of check() in one run
MaxTime == 2           \* clock ticks in one run
NCallers == 3          \* callers submitting transfers at once
MaxAddrs == 3          \* raw address strings in one request

VARIABLES
    \* ---- Serve: the parsed command line (struct Serve)
    values,            \* Vec<Value>: the amounts, one per value
    catch_up,          \* Vec<ChannelIdAndMessageId>: here its length
    source_address,    \* --source
    rate_limit,        \* --rate-limit, in ticks
    reply_limit,       \* --reply-limit
    max_addresses,     \* --max-addresses
    \* ---- Serve::exec: position and outcome
    pc, result, failed_at,
    \* ---- what Serve::exec has built
    synced, sender, responder, handler, client, client_data,
    \* ---- the spawned tasks
    client_task, responder_task, catch_up_task, workers,
    \* ---- the request queue (send_requests / Responder)
    queued, sent, served,
    dispensed,         \* the values lists the Responder has dispensed with
    \* ---- Handler: the rate limiter
    now,               \* the clock, in ticks
    send_history,      \* user -> RateLimitEntry or Absent
    lock,              \* the task holding the table's mutex, 0 when free
    hpc, huser, hseen, \* each message handler task: position, user, snapshot
    log,               \* the decisions check() has returned, in order
    \* ---- Sender: the transfer worker
    inbox,             \* submitted transfers waiting for the worker
    current,           \* worker -> the caller whose transfer it executes, 0 if none
    cpc,               \* caller -> idle | waiting | done
    executed,          \* the transfers completed, in order
    \* ---- Responder: one request being dispensed
    request,           \* raw_address_strings of the DispenseRequest
    rpc, idx,          \* position in dispense, index of the next entry
    succeeded, failed, unparsed, remaining,
    attempts,          \* the addresses handed to the transfer worker, in order
    response,          \* the Response, once built
    \* ---- Response::summary: the text of the reply
    summary,           \* the String built, as the pieces pushed onto it
    spc,               \* idle | done
    \* ---- the request queue with its producers and its consumer
    catch_up_batch_size, \* --catch-up-batch-size
    posted,            \* the messages of the channel are 1..posted
    answered,          \* the messages that have been replied to
    queues,            \* queue -> the requests sent and not yet received
    sending,           \* the messages whose handler is in send()
    started,           \* the requests whose send() has been called
    scan,              \* catch-up worker -> position, cursor, requests to send
    skipped,           \* <<worker, message>>: read by the worker when answered
    enqueued,          \* the number of send() calls completed
    dequeued,          \* the Responder's receptions, each by its place among the sends
    deliveries         \* request -> how often the Responder has received it

cfgVars == <<values, catch_up, source_address, rate_limit, reply_limit, max_addresses>>
execVars == <<pc, result, failed_at>>
builtVars == <<synced, sender, responder, handler, client, client_data>>
taskVars == <<client_task, responder_task, catch_up_task, workers>>
queueVars == <<queued, sent, served, dispensed>>
serveVars == <<cfgVars, execVars, builtVars, taskVars, queueVars>>

rateVars == <<now, send_history, lock, hpc, huser, hseen, log>>
xferVars == <<inbox, current, cpc, executed>>
respVars == <<request, rpc, idx, succeeded, failed, unparsed, remaining, attempts, response>>
sumVars == <<summary, spc>>
chanVars == <<catch_up_batch_size, posted, answered, queues, sending, started, scan,
              skipped, enqueued, dequeued, deliveries>>
compVars == <<rateVars, xferVars, respVars, sumVars, chanVars>>

vars == <<serveVars, compVars>>

(***************************************************************************)
(* The command line.                                                       *)
(***************************************************************************)
\* the defaults of --rate-limit ("1day", one tick), --reply-limit, --max-addresses
DefaultRateLimit == 1
DefaultReplyLimit == 5
DefaultMaxAddresses == 1

ValuesChoices == {<<>>, <<0>>, <<1>>, <<2, 1>>, <<1, 0>>}
SourceChoices == {0, 1}
RateLimits == {1, 2}
ReplyLimits == {1, 2}
AddressCaps == {1, 2}

Targets == 1..MaxTargets

(***************************************************************************)
(* Constructors called by Serve::exec.                                     *)
(***************************************************************************)
\* a binding Serve::exec has not made yet
Absent == [absent |-> TRUE]

\* Mutations of the definitions below: each is the definition as a plausible
\* slip would have written it.
HandlerNewSwapped(rate, reply) == [rate_limit |-> reply, reply_limit |-> rate]

HandlerNewReplyPlusOne(rate, reply) == [rate_limit |-> rate, reply_limit |-> reply + 1]

ResponderNewCapPlusOne(s, max, vals) ==
    [actions |-> s, max_addresses |-> max + 1, values |-> vals]

ExecOrderInsertLate ==
    << "values", "discord_token", "data_dir", "wallet", "view_storage",
       "view_service", "sync", "sender", "responder", "handler", "client",
       "catch_up", "insert", "select" >>

ExecOrderSyncLate ==
    << "values", "discord_token", "data_dir", "wallet", "view_storage",
       "view_service", "sender", "responder", "handler", "client",
       "insert", "catch_up", "sync", "select" >>

SenderNew(account) == [source |-> account]

ResponderNew(s, max, vals) == [actions |-> s, max_addresses |-> max, values |-> vals]

HandlerNew(rate, reply) == [rate_limit |-> rate, reply_limit |-> reply]

(***************************************************************************)
(* The statements of Serve::exec, in program order.                        *)
(***************************************************************************)
ExecOrder ==
    << "values", "discord_token", "data_dir", "wallet", "view_storage",
       "view_service", "sync", "sender", "responder", "handler", "client",
       "insert", "catch_up", "select" >>

Pos(p) == CHOOSE i \in 1..Len(ExecOrder) : ExecOrder[i] = p

After(p) == ExecOrder[Pos(p) + 1]

Outcomes == {"ok", "err", "panic"}
Ended == {"ok", "err", "panic"}

(***************************************************************************)
(* The components Serve::exec constructs, before they have done anything.  *)
(***************************************************************************)
Users == 1..NUsers
HTasks == 1..NHandlers
Callers == 1..NCallers

\* Serve::exec builds one Sender and moves it into the one Responder
SenderCountTwo == 1 + 1

SenderCount == 1

Workers == 1..SenderCount

RateIdle ==
    /\ now = 0
    /\ send_history = [u \in Users |-> Absent]
    /\ lock = 0
    /\ hpc = [t \in HTasks |-> "idle"]
    /\ huser = [t \in HTasks |-> 0]
    /\ hseen = [t \in HTasks |-> Absent]
    /\ log = <<>>

XferIdle ==
    /\ inbox = <<>>
    /\ current = [w \in Workers |-> 0]
    /\ cpc = [c \in Callers |-> "idle"]
    /\ executed = <<>>

NMessages == 2          \* messages posted in the channel
MaxBatch == 2           \* --catch-up-batch-size
DefaultCatchUpBatchSize == 25

Messages == 1..NMessages

\* the catch-up workers that scan the channel, beside the message handlers
Scanners == {1, 2}

\* the queue made by Responder::new, and one that nothing receives from
Queues == {"send_requests", "detached"}

\* a request for message m, sent by the handler (0) or by catch-up worker w
Request(m, by) == [msg |-> m, by |-> by]

AllRequests == {Request(m, by) : m \in Messages, by \in {0} \cup Scanners}

ChanIdle ==
    /\ catch_up_batch_size = DefaultCatchUpBatchSize
    /\ posted = 0
    /\ answered = {}
    /\ queues = [q \in Queues |-> <<>>]
    /\ sending = {}
    /\ started = {}
    /\ scan = [w \in Scanners |-> [pc |-> "done", cursor |-> 1, batch |-> <<>>]]
    /\ skipped = {}
    /\ enqueued = 0
    /\ dequeued = <<>>
    /\ deliveries = [r \in AllRequests |-> 0]

SumIdle ==
    /\ summary = <<>>
    /\ spc = "idle"

RespIdle ==
    /\ request = <<>>
    /\ rpc = "idle"
    /\ idx = 1
    /\ succeeded = <<>>
    /\ failed = <<>>
    /\ unparsed = <<>>
    /\ remaining = <<>>
    /\ attempts = <<>>
    /\ response = Absent

Init ==
    /\ RateIdle
    /\ XferIdle
    /\ RespIdle
    /\ SumIdle
    /\ ChanIdle
    /\ values \in ValuesChoices
    /\ catch_up \in 0..MaxTargets
    /\ source_address \in SourceChoices
    /\ rate_limit = DefaultRateLimit
    /\ reply_limit = DefaultReplyLimit
    /\ max_addresses = DefaultMaxAddresses
    /\ pc = ExecOrder[1]
    /\ result = "none"
    /\ failed_at = "none"
    /\ synced = FALSE
    /\ sender = Absent
    /\ responder = Absent
    /\ handler = Absent
    /\ client = "none"
    /\ client_data = {}
    /\ client_task = "none"
    /\ responder_task = "none"
    /\ catch_up_task = "none"
    /\ workers = [w \in Targets |-> "none"]
    /\ queued = 0
    /\ sent = 0
    /\ served = 0
    /\ dispensed = {}

\* anyhow::bail! or `?`: Serve::exec returns Err at this statement.
Bail(r) ==
    /\ pc' = "done"
    /\ result' = r
    /\ failed_at' = pc

Step ==
    /\ pc' = After(pc)
    /\ UNCHANGED <<result, failed_at>>

\* a fallible startup statement that builds nothing the model tracks
Fallible(step) ==
    /\ UNCHANGED compVars
    /\ pc = step
    /\ \E ok \in BOOLEAN : IF ok THEN Step ELSE Bail("err")
    /\ UNCHANGED <<cfgVars, builtVars, taskVars, queueVars>>

\* the values check that forgets the zero amounts
ValuesRejectedEmptyOnly(vals) == vals = <<>>

\* values.is_empty(), or some v.amount.value().is_zero()
ValuesRejected(vals) ==
    \/ vals = <<>>
    \/ \E i \in 1..Len(vals) : vals[i] = 0

ExecValues ==
    /\ UNCHANGED compVars
    /\ pc = "values"
    /\ IF ValuesRejected(values)
          THEN Bail("err")
          ELSE Step
    /\ UNCHANGED <<cfgVars, builtVars, taskVars, queueVars>>

ExecDiscordToken == Fallible("discord_token")

ExecDataDir ==
    /\ UNCHANGED compVars
    /\ pc = "data_dir"
    /\ \E o \in Outcomes : IF o = "ok" THEN Step ELSE Bail(o)
    /\ UNCHANGED <<cfgVars, builtVars, taskVars, queueVars>>

ExecWallet == Fallible("wallet")

ExecViewStorage == Fallible("view_storage")

ExecViewService == Fallible("view_service")

ExecSync ==
    /\ UNCHANGED compVars
    /\ pc = "sync"
    /\ \E ok \in BOOLEAN :
          IF ok THEN Step /\ synced' = TRUE
                ELSE Bail("err") /\ synced' = synced
    /\ UNCHANGED <<cfgVars, sender, responder, handler, client, client_data,
                   taskVars, queueVars>>

ExecSender ==
    /\ UNCHANGED compVars
    /\ pc = "sender"
    /\ sender' = SenderNew(0)
    /\ Step
    /\ UNCHANGED <<cfgVars, synced, responder, handler, client, client_data,
                   taskVars, queueVars>>

ExecResponder ==
    /\ UNCHANGED compVars
    /\ pc = "responder"
    /\ responder' = ResponderNew(sender, max_addresses, values)
    /\ Step
    /\ UNCHANGED <<cfgVars, synced, sender, handler, client, client_data,
                   taskVars, queueVars>>

ExecHandler ==
    /\ UNCHANGED compVars
    /\ pc = "handler"
    /\ handler' = HandlerNew(rate_limit, reply_limit)
    /\ Step
    /\ UNCHANGED <<cfgVars, synced, sender, responder, client, client_data,
                   taskVars, queueVars>>

ExecClient ==
    /\ UNCHANGED compVars
    /\ pc = "client"
    /\ \E ok \in BOOLEAN :
          IF ok THEN Step /\ client' = "built"
                ELSE Bail("err") /\ client' = client
    /\ UNCHANGED <<cfgVars, synced, sender, responder, handler, client_data,
                   taskVars, queueVars>>

ExecInsert ==
    /\ UNCHANGED compVars
    /\ pc = "insert"
    /\ client_data' = client_data \cup {"RequestQueue"}
    /\ Step
    /\ UNCHANGED <<cfgVars, synced, sender, responder, handler, client,
                   taskVars, queueVars>>

ExecCatchUp ==
    /\ UNCHANGED compVars
    /\ pc = "catch_up"
    /\ catch_up_task' = "spawned"
    /\ Step
    /\ UNCHANGED <<cfgVars, builtVars, client_task, responder_task, workers,
                   queueVars>>

\* tokio::select! evaluates its three branch expressions: the first two spawn
\* client.start() and responder.run().
ExecSelectSpawn ==
    /\ UNCHANGED compVars
    /\ pc = "select"
    /\ client_task = "none"
    /\ client_task' = "running"
    /\ responder_task' = "running"
    /\ UNCHANGED <<cfgVars, execVars, builtVars, catch_up_task, workers, queueVars>>

\* The outcome of each branch of tokio::select!, once its task has ended.
\* result.unwrap() panics on a JoinError; .context(..) keeps Ok and wraps Err
JoinUnwrap(task) ==
    CASE task = "panic" -> "panic"
      [] task = "err" -> "err"
      [] task = "ok" -> "ok"

ClientBranch == JoinUnwrap(client_task)

ResponderBranch == JoinUnwrap(responder_task)

\* result.context(..)? : a JoinError and the group's own Err are both Err
CatchUpBranch == "err"

\* select! without the Responder branch
SelectReadyNoResponder ==
    (IF client_task \in Ended THEN {ClientBranch} ELSE {})
        \cup (IF catch_up_task = "err" THEN {CatchUpBranch} ELSE {})

\* the catch-up task returning Ok(()) after its loop instead of waiting
SelectReadyCatchUpReturns ==
    (IF client_task \in Ended THEN {ClientBranch} ELSE {})
        \cup (IF responder_task \in Ended THEN {ResponderBranch} ELSE {})
        \cup (IF catch_up_task = "err" THEN {CatchUpBranch} ELSE {})
        \cup (IF catch_up_task = "pending" THEN {"ok"} ELSE {})

SelectReady ==
    (IF client_task \in Ended THEN {ClientBranch} ELSE {})
        \cup (IF responder_task \in Ended THEN {ResponderBranch} ELSE {})
        \cup (IF catch_up_task = "err" THEN {CatchUpBranch} ELSE {})

ExecSelect ==
    /\ UNCHANGED compVars
    /\ pc = "select"
    /\ client_task # "none"
    /\ \E r \in SelectReady :
          /\ pc' = "done"
          /\ result' = r
          /\ failed_at' = IF r = "ok" THEN "none" ELSE "select"
    /\ UNCHANGED <<cfgVars, builtVars, taskVars, queueVars>>

(***************************************************************************)
(* The catch-up group task and its workers.                                *)
(***************************************************************************)
Running == pc # "done"

CatchUpSpawnWorkers ==
    /\ UNCHANGED compVars
    /\ Running
    /\ catch_up_task = "spawned"
    /\ catch_up_task' = "joining"
    /\ workers' = [w \in Targets |-> IF w <= catch_up THEN "running" ELSE "none"]
    /\ UNCHANGED <<cfgVars, execVars, builtVars, client_task, responder_task, queueVars>>

\* catch_ups.next().await yields a finished worker; result?? returns its error
CatchUpJoin(w) ==
    /\ UNCHANGED compVars
    /\ Running
    /\ catch_up_task = "joining"
    /\ workers[w] \in Ended
    /\ IF workers[w] = "ok"
          THEN /\ workers' = [workers EXCEPT ![w] = "joined"]
               /\ UNCHANGED catch_up_task
          ELSE /\ catch_up_task' = "err"
               /\ UNCHANGED workers
    /\ UNCHANGED <<cfgVars, execVars, builtVars, client_task, responder_task, queueVars>>

\* catch_ups.next() is None: std::future::pending().await
CatchUpPending ==
    /\ UNCHANGED compVars
    /\ Running
    /\ catch_up_task = "joining"
    /\ \A w \in Targets : workers[w] \in {"none", "joined"}
    /\ catch_up_task' = "pending"
    /\ UNCHANGED <<cfgVars, execVars, builtVars, client_task, responder_task, workers,
                   queueVars>>

WorkerEnqueue(w) ==
    /\ UNCHANGED compVars
    /\ Running
    /\ workers[w] = "running"
    /\ queued < QueueCap
    /\ sent < MaxRequests
    /\ queued' = queued + 1
    /\ sent' = sent + 1
    /\ UNCHANGED <<cfgVars, execVars, builtVars, taskVars, served, dispensed>>

WorkerEnd(w) ==
    /\ UNCHANGED compVars
    /\ Running
    /\ workers[w] = "running"
    /\ \E o \in Outcomes : workers' = [workers EXCEPT ![w] = o]
    /\ UNCHANGED <<cfgVars, execVars, builtVars, client_task, responder_task,
                   catch_up_task, queueVars>>

(***************************************************************************)
(* The chat client service and the Responder loop.                         *)
(***************************************************************************)
\* a message handler takes the queue's sending handle from client.data
ClientMessage ==
    /\ UNCHANGED compVars
    /\ Running
    /\ client_task = "running"
    /\ "RequestQueue" \in client_data
    /\ queued < QueueCap
    /\ sent < MaxRequests
    /\ queued' = queued + 1
    /\ sent' = sent + 1
    /\ UNCHANGED <<cfgVars, execVars, builtVars, taskVars, served, dispensed>>

ClientEnd ==
    /\ UNCHANGED compVars
    /\ Running
    /\ client_task = "running"
    /\ \E o \in Outcomes : client_task' = o
    /\ UNCHANGED <<cfgVars, execVars, builtVars, responder_task, catch_up_task,
                   workers, queueVars>>

ResponderDequeue ==
    /\ UNCHANGED compVars
    /\ Running
    /\ responder_task = "running"
    /\ queued > 0
    /\ queued' = queued - 1
    /\ served' = served + 1
    /\ dispensed' = dispensed \cup {responder.values}
    /\ UNCHANGED <<cfgVars, execVars, builtVars, taskVars, sent>>

\* every sending handle is gone: the one the catch-up group task owns, the
\* workers' clones and the clone in client.data
QueueClosed ==
    /\ catch_up_task = "err"
    /\ \A w \in Targets : workers[w] # "running"
    /\ client_task \in Ended

ResponderEnd ==
    /\ UNCHANGED compVars
    /\ Running
    /\ responder_task = "running"
    /\ \E o \in Outcomes :
          /\ o = "ok" => QueueClosed /\ queued = 0
          /\ responder_task' = o
    /\ UNCHANGED <<cfgVars, execVars, builtVars, client_task, catch_up_task,
                   workers, queueVars>>

Next ==
    \/ ExecValues
    \/ ExecDiscordToken
    \/ ExecDataDir
    \/ ExecWallet
    \/ ExecViewStorage
    \/ ExecViewService
    \/ ExecSync
    \/ ExecSender
    \/ ExecResponder
    \/ ExecHandler
    \/ ExecClient
    \/ ExecInsert
    \/ ExecCatchUp
    \/ ExecSelectSpawn
    \/ ExecSelect
    \/ CatchUpSpawnWorkers
    \/ \E w \in Targets : CatchUpJoin(w)
    \/ CatchUpPending
    \/ \E w \in Targets : WorkerEnqueue(w)
    \/ \E w \in Targets : WorkerEnd(w)
    \/ ClientMessage
    \/ ClientEnd
    \/ ResponderDequeue
    \/ ResponderEnd

Spec == Init /\ [][Next]_vars

(***************************************************************************)
(* The state Serve::exec has reached once it waits in tokio::select!, with *)
(* no catch-up target: everything built, the client and the Responder      *)
(* running.                                                                *)
(***************************************************************************)
Serving ==
    /\ values = <<1>>
    /\ catch_up = 0
    /\ source_address = 0
    /\ pc = "select"
    /\ result = "none"
    /\ failed_at = "none"
    /\ synced = TRUE
    /\ sender = SenderNew(0)
    /\ responder = ResponderNew(sender, max_addresses, values)
    /\ handler = HandlerNew(rate_limit, reply_limit)
    /\ client = "built"
    /\ client_data = {"RequestQueue"}
    /\ client_task = "running"
    /\ responder_task = "running"
    /\ catch_up_task = "pending"
    /\ workers = [w \in Targets |-> "none"]
    /\ queued = 0
    /\ sent = 0
    /\ served = 0
    /\ dispensed = {}

(***************************************************************************)
(* Handler: the rate limiter.  Each message handler task takes the mutex   *)
(* of the table, reads the user's entry and the clock, decides, writes     *)
(* the entry back and releases the mutex.                                  *)
(***************************************************************************)
RateLimitEntry(start, count, notices) ==
    [window_start |-> start, request_count |-> count, notices_sent |-> notices]

\* the window of an entry is [window_start, window_start + rate_limit)
InWindow(entry, t) ==
    /\ entry # Absent
    /\ t < entry.window_start + handler.rate_limit

Decide(entry, t) ==
    IF ~InWindow(entry, t) THEN "Allow"
    ELSE IF entry.notices_sent < handler.reply_limit THEN "DenyNotify"
    ELSE "DenySilent"

Update(entry, t) ==
    IF ~InWindow(entry, t) THEN RateLimitEntry(t, 1, 0)
    ELSE IF entry.notices_sent < handler.reply_limit
        THEN RateLimitEntry(entry.window_start, entry.request_count + 1,
                            entry.notices_sent + 1)
    ELSE RateLimitEntry(entry.window_start, entry.request_count + 1,
                        entry.notices_sent)

\* mutual exclusion on the table
MayLock(t) == lock = 0

Calls == Len(log) + Cardinality({t \in HTasks : hpc[t] # "idle"})

HandlerMessage(t, u) ==
    /\ hpc[t] = "idle"
    /\ Calls < MaxCalls
    /\ hpc' = [hpc EXCEPT ![t] = "lock"]
    /\ huser' = [huser EXCEPT ![t] = u]
    /\ UNCHANGED <<now, send_history, lock, hseen, log>>
    /\ UNCHANGED <<serveVars, xferVars, respVars, sumVars, chanVars>>

HandlerLock(t) ==
    /\ hpc[t] = "lock"
    /\ MayLock(t)
    /\ lock' = t
    /\ hpc' = [hpc EXCEPT ![t] = "read"]
    /\ UNCHANGED <<now, send_history, huser, hseen, log>>
    /\ UNCHANGED <<serveVars, xferVars, respVars, sumVars, chanVars>>

HandlerRead(t) ==
    /\ hpc[t] = "read"
    /\ hseen' = [hseen EXCEPT ![t] = [entry |-> send_history[huser[t]], at |-> now]]
    /\ hpc' = [hpc EXCEPT ![t] = "write"]
    /\ UNCHANGED <<now, send_history, lock, huser, log>>
    /\ UNCHANGED <<serveVars, xferVars, respVars, sumVars, chanVars>>

HandlerWrite(t) ==
    /\ hpc[t] = "write"
    /\ send_history' = [send_history EXCEPT
                           ![huser[t]] = Update(hseen[t].entry, hseen[t].at)]
    /\ log' = Append(log, [user |-> huser[t], time |-> hseen[t].at,
                           decision |-> Decide(hseen[t].entry, hseen[t].at)])
    /\ hseen' = [hseen EXCEPT ![t] = Absent]
    /\ hpc' = [hpc EXCEPT ![t] = "unlock"]
    /\ UNCHANGED <<now, lock, huser>>
    /\ UNCHANGED <<serveVars, xferVars, respVars, sumVars, chanVars>>

HandlerUnlock(t) ==
    /\ hpc[t] = "unlock"
    /\ lock' = IF lock = t THEN 0 ELSE lock
    /\ hpc' = [hpc EXCEPT ![t] = "idle"]
    /\ huser' = [huser EXCEPT ![t] = 0]
    /\ UNCHANGED <<now, send_history, hseen, log>>
    /\ UNCHANGED <<serveVars, xferVars, respVars, sumVars, chanVars>>

Tick ==
    /\ now < MaxTime
    /\ now' = now + 1
    /\ UNCHANGED <<send_history, lock, hpc, huser, hseen, log>>
    /\ UNCHANGED <<serveVars, xferVars, respVars, sumVars, chanVars>>

InitRate ==
    /\ rate_limit \in RateLimits
    /\ reply_limit \in ReplyLimits
    /\ max_addresses = DefaultMaxAddresses
    /\ Serving
    /\ RateIdle
    /\ XferIdle
    /\ RespIdle
    /\ SumIdle
    /\ ChanIdle

NextRate ==
    \/ \E t \in HTasks, u \in Users : HandlerMessage(t, u)
    \/ \E t \in HTasks : HandlerLock(t)
    \/ \E t \in HTasks : HandlerRead(t)
    \/ \E t \in HTasks : HandlerWrite(t)
    \/ \E t \in HTasks : HandlerUnlock(t)
    \/ Tick

SpecRate == InitRate /\ [][NextRate]_vars

Allowed(j) == log[j].decision = "Allow"

\* an earlier Allow of the same user whose window (as configured by
\* --rate-limit) holds the time of call j
OpenWindow(j) ==
    \E i \in 1..(j - 1) :
        /\ log[i].user = log[j].user
        /\ Allowed(i)
        /\ log[j].time < log[i].time + rate_limit

\* C1: a check is allowed exactly when no earlier allowed check of the same user
\* has a window that holds its time: the first request in a window is allowed
\* and opens it, every later one in it is denied, so no window has two Allows.
C1_OneAllowPerWindow ==
    \A j \in 1..Len(log) : Allowed(j) <=> ~OpenWindow(j)

\* two handler tasks are checking the same user at once, one of them waiting
\* for the mutex, in a window an earlier check opened and a later one was
\* denied in
C1_Witness ==
    /\ \E i, j \in 1..Len(log) : i < j /\ Allowed(i) /\ ~Allowed(j)
                                 /\ log[i].user = log[j].user
    /\ \E t \in HTasks :
          /\ hpc[t] = "lock"
          /\ lock \notin {0, t}
          /\ huser[t] = huser[lock]
          /\ huser[t] = log[1].user

\* the denials of call j's user from its latest Allow up to call j
DenialsSoFar(j) ==
    Cardinality({k \in 1..j :
        /\ log[k].user = log[j].user
        /\ ~Allowed(k)
        /\ \A m \in k..j : log[m].user = log[j].user => ~Allowed(m)})

\* C2: the notice counter never exceeds --reply-limit; the n-th denial in a
\* window carries notify = true exactly when n <= reply_limit, and an Allow
\* (a new window) starts the count again.
C2_NoticesCapped ==
    /\ \A u \in Users : send_history[u] # Absent =>
           send_history[u].notices_sent <= reply_limit
    /\ \A j \in 1..Len(log) : ~Allowed(j) =>
           (log[j].decision = "DenyNotify" <=> DenialsSoFar(j) <= reply_limit)
    /\ \A j \in 1..Len(log) : log[j].decision \in {"Allow", "DenyNotify", "DenySilent"}

\* reply_limit = 2 and four requests of one user in one window
C2_Witness ==
    /\ reply_limit = 2
    /\ Len(log) = 4
    /\ \A j \in 1..4 : log[j].user = log[1].user
    /\ [j \in 1..4 |-> log[j].decision] =
           <<"Allow", "DenyNotify", "DenyNotify", "DenySilent">>
    /\ send_history[log[1].user].notices_sent = 2

(***************************************************************************)
(* Sender: the transfer worker.  Callers submit a transfer to the worker's *)
(* inbound channel and wait; the worker owns the connection to the funds   *)
(* issuer, takes one transfer at a time, executes it and answers.          *)
(***************************************************************************)
CallerSubmit(c) ==
    /\ cpc[c] = "idle"
    /\ inbox' = Append(inbox, c)
    /\ cpc' = [cpc EXCEPT ![c] = "waiting"]
    /\ UNCHANGED <<current, executed>>
    /\ UNCHANGED <<serveVars, rateVars, respVars, sumVars, chanVars>>

WorkerTake(w) ==
    /\ current[w] = 0
    /\ inbox # <<>>
    /\ current' = [current EXCEPT ![w] = Head(inbox)]
    /\ inbox' = Tail(inbox)
    /\ UNCHANGED <<cpc, executed>>
    /\ UNCHANGED <<serveVars, rateVars, respVars, sumVars, chanVars>>

\* the funds issuer acknowledges the transfer, or refuses it
WorkerFinish(w) ==
    /\ current[w] # 0
    /\ \E ok \in BOOLEAN :
          executed' = Append(executed, [caller |-> current[w], ok |-> ok])
    /\ cpc' = [cpc EXCEPT ![current[w]] = "done"]
    /\ current' = [current EXCEPT ![w] = 0]
    /\ UNCHANGED inbox
    /\ UNCHANGED <<serveVars, rateVars, respVars, sumVars, chanVars>>

InitXfer ==
    /\ rate_limit = DefaultRateLimit
    /\ reply_limit = DefaultReplyLimit
    /\ max_addresses = DefaultMaxAddresses
    /\ Serving
    /\ RateIdle
    /\ XferIdle
    /\ RespIdle
    /\ SumIdle
    /\ ChanIdle

NextXfer ==
    \/ \E c \in Callers : CallerSubmit(c)
    \/ \E w \in Workers : WorkerTake(w)
    \/ \E w \in Workers : WorkerFinish(w)

SpecXfer == InitXfer /\ [][NextXfer]_vars

\* the transfers in flight at the funds issuer
InFlight == {w \in Workers : current[w] # 0}

\* how often caller c's transfer is in the inbox, in flight or executed
Copies(c) ==
    Cardinality({i \in 1..Len(inbox) : inbox[i] = c})
      + Cardinality({w \in Workers : current[w] = c})
      + Cardinality({i \in 1..Len(executed) : executed[i].caller = c})

\* C3: at most one transfer is in flight; a submitted transfer is in the
\* system exactly once (never lost, never duplicated); when all K callers have
\* their answer exactly K transfers have been executed, one after another.
C3_TransfersSerialized ==
    /\ Cardinality(InFlight) <= 1
    /\ \A c \in Callers : Copies(c) = (IF cpc[c] = "idle" THEN 0 ELSE 1)
    /\ \A c \in Callers :
          cpc[c] = "done" <=> \E i \in 1..Len(executed) : executed[i].caller = c
    /\ (\A c \in Callers : cpc[c] = "done") => Len(executed) = NCallers

\* K callers submitted at once: one transfer in flight, the others waiting,
\* and later all K executed
C3_Witness ==
    \/ /\ Cardinality(InFlight) = 1
       /\ Len(inbox) = NCallers - 1
    \/ /\ Len(executed) = NCallers
       /\ \E i \in 1..Len(executed) : ~executed[i].ok

(***************************************************************************)
(* Responder: dispensing one request.                                      *)
(***************************************************************************)
RawStrings == {"addrA", "addrB", "bad-addr"}

\* address-format validation
IsAddress(s) == s \in {"addrA", "addrB"}

NotAddress(s) == ~IsAddress(s)

RECURSIVE SeqsUpTo(_)
SeqsUpTo(n) ==
    IF n = 0 THEN {<<>>}
    ELSE LET shorter == SeqsUpTo(n - 1)
         IN shorter \cup {Append(q, x) : q \in {r \in shorter : Len(r) = n - 1},
                                        x \in RawStrings}

Requests == SeqsUpTo(MaxAddrs) \ {<<>>}

Response(s, f, u, r) ==
    [succeeded |-> s, failed |-> f, unparsed |-> u, remaining |-> r]

Min(a, b) == IF a < b THEN a ELSE b

\* the entries dispense still has to process
InBatch == idx <= Len(request) /\ idx <= responder.max_addresses

AfterFailureAbort(i, n) == n + 1

RestUnparsedDropped(rest) == <<>>

\* where dispense goes on after the transfer for entry i has failed
AfterFailure(i, n) == i + 1

\* the invalid strings among the entries after the batch
RestUnparsed(rest) == SelectSeq(rest, NotAddress)

RestRemaining(rest) == SelectSeq(rest, IsAddress)

ResponderTake(req) ==
    /\ rpc = "idle"
    /\ request' = req
    /\ rpc' = "dispense"
    /\ idx' = 1
    /\ succeeded' = <<>>
    /\ failed' = <<>>
    /\ unparsed' = <<>>
    /\ remaining' = <<>>
    /\ attempts' = <<>>
    /\ response' = Absent
    /\ UNCHANGED <<serveVars, rateVars, xferVars, sumVars, chanVars>>

DispenseUnparsed ==
    /\ rpc = "dispense"
    /\ InBatch
    /\ NotAddress(request[idx])
    /\ unparsed' = Append(unparsed, request[idx])
    /\ idx' = idx + 1
    /\ UNCHANGED <<request, rpc, succeeded, failed, remaining, attempts, response>>
    /\ UNCHANGED <<serveVars, rateVars, xferVars, sumVars, chanVars>>

DispenseTransfer ==
    /\ rpc = "dispense"
    /\ InBatch
    /\ IsAddress(request[idx])
    /\ attempts' = Append(attempts, request[idx])
    /\ rpc' = "transfer"
    /\ UNCHANGED <<request, idx, succeeded, failed, unparsed, remaining, response>>
    /\ UNCHANGED <<serveVars, rateVars, xferVars, sumVars, chanVars>>

DispenseTransferEnd ==
    /\ rpc = "transfer"
    /\ \E ok \in BOOLEAN :
          IF ok
             THEN /\ succeeded' = Append(succeeded, <<request[idx], responder.values>>)
                  /\ idx' = idx + 1
                  /\ UNCHANGED failed
             ELSE /\ failed' = Append(failed, <<request[idx], "error">>)
                  /\ idx' = AfterFailure(idx, Len(request))
                  /\ UNCHANGED succeeded
    /\ rpc' = "dispense"
    /\ UNCHANGED <<request, unparsed, remaining, attempts, response>>
    /\ UNCHANGED <<serveVars, rateVars, xferVars, sumVars, chanVars>>

\* ---------------------------------------------------------------------------
\* Response::summary (response.rs): the reply text, kept as the sequence of the
\* pieces pushed onto the String; every "\n" is a piece of its own.

MaxList == 2

NL == [kind |-> "nl", arg |-> <<>>]
Text(k) == [kind |-> k, arg |-> <<>>]
\* `{}` around an address or a raw string
Code(a) == [kind |-> "code", arg |-> <<a>>]
\* `{}` (error: {})
CodeError(a, e) == [kind |-> "code_error", arg |-> <<a, e>>]
\* the mentions of the administrator roles, joined by " "
Mention(roles) == [kind |-> "mention", arg |-> roles]
\* the "only allowed ... {} at a time" line with the number it prints
RemainingHeader(n) == [kind |-> "remaining_header", arg |-> <<n>>]

\* what mention_admins can return: the roles of the guild that have the
\* ADMINISTRATOR permission, in the order the role map yields them
AdminMentions == {<<>>, <<"@admin">>, <<"@admin", "@ops">>, <<"@ops", "@admin">>}

RECURSIVE SucceededLines(_)
SucceededLines(l) ==
    IF l = <<>> THEN <<>>
    ELSE <<NL, Code(Head(l)[1])>> \o SucceededLines(Tail(l))

RECURSIVE FailedLines(_)
FailedLines(l) ==
    IF l = <<>> THEN <<>>
    ELSE <<NL, CodeError(Head(l)[1], Head(l)[2])>> \o FailedLines(Tail(l))

RECURSIVE AddrLines(_)
AddrLines(l) ==
    IF l = <<>> THEN <<>>
    ELSE <<NL, Code(Head(l))>> \o AddrLines(Tail(l))

SucceededSection(r) ==
    IF r.succeeded # <<>>
       THEN <<Text("succeeded_header")>> \o SucceededLines(r.succeeded)
       ELSE <<>>

\* the failures without the line for the administrators
FailedSectionNoEscalation(r, mention) ==
    IF r.failed # <<>>
       THEN <<Text("failed_header")>> \o FailedLines(r.failed)
       ELSE <<>>

\* the header is pushed without a leading "\n"
FailedSection(r, mention) ==
    IF r.failed # <<>>
       THEN <<Text("failed_header")>> \o FailedLines(r.failed)
                \o <<NL, Mention(mention), Text("escalation")>>
       ELSE <<>>

UnparsedSection(r) ==
    IF r.unparsed # <<>>
       THEN <<NL, Text("unparsed_header")>> \o AddrLines(r.unparsed)
       ELSE <<>>

\* the number printed is self.succeeded.len()
RemainingSection(r) ==
    IF r.remaining # <<>>
       THEN <<NL, RemainingHeader(Len(r.succeeded))>> \o AddrLines(r.remaining)
       ELSE <<>>

\* the summary with the unparsed strings reported before the failures
SummaryUnparsedFirst(r, mention) ==
    SucceededSection(r) \o UnparsedSection(r) \o FailedSection(r, mention)
        \o RemainingSection(r)

Summary(r, mention) ==
    SucceededSection(r) \o FailedSection(r, mention) \o UnparsedSection(r)
        \o RemainingSection(r)

DispenseBuild ==
    /\ rpc = "dispense"
    /\ ~InBatch
    /\ LET rest == SubSeq(request, idx, Len(request))
           u == unparsed \o RestUnparsed(rest)
           r == RestRemaining(rest)
       IN /\ unparsed' = u
          /\ remaining' = r
          /\ response' = Response(succeeded, failed, u, r)
    /\ rpc' = "reply"
    /\ UNCHANGED <<request, idx, succeeded, failed, attempts>>
    /\ UNCHANGED <<serveVars, rateVars, xferVars, sumVars, chanVars>>

ResponderReply ==
    /\ rpc = "reply"
    /\ rpc' = "idle"
    /\ \E mention \in AdminMentions : summary' = Summary(response, mention)
    /\ spc' = "done"
    /\ UNCHANGED <<request, idx, succeeded, failed, unparsed, remaining, attempts,
                   response>>
    /\ UNCHANGED <<serveVars, rateVars, xferVars, chanVars>>

InitResp ==
    /\ rate_limit = DefaultRateLimit
    /\ reply_limit = DefaultReplyLimit
    /\ max_addresses \in AddressCaps
    /\ Serving
    /\ RateIdle
    /\ XferIdle
    /\ RespIdle
    /\ SumIdle
    /\ ChanIdle

NextResp ==
    \/ \E req \in Requests : ResponderTake(req)
    \/ DispenseUnparsed
    \/ DispenseTransfer
    \/ DispenseTransferEnd
    \/ DispenseBuild
    \/ ResponderReply

SpecResp == InitResp /\ [][NextResp]_vars

\* the request's first N entries (N = --max-addresses) and the ones after them
Batch == SubSeq(request, 1, Min(Len(request), max_addresses))

Rest == SubSeq(request, Min(Len(request), max_addresses) + 1, Len(request))

Max(a, b) == IF a > b THEN a ELSE b

\* C4 as stated: |succeeded| + |failed| + |unparsed| <= N and
\* |remaining| = max(0, M - N).
C4_CapAsStated ==
    response # Absent =>
        /\ Len(response.succeeded) + Len(response.failed) + Len(response.unparsed)
               <= max_addresses
        /\ Len(response.remaining) = Max(0, Len(request) - max_addresses)

\* C4 amended: only the first N entries are processed; each valid one of them
\* is in succeeded or failed, each invalid one in unparsed; of the entries after
\* the first N the valid ones are remaining, with no transfer attempt, and the
\* invalid ones are unparsed too.
C4_AddressCap ==
    response # Absent =>
        /\ Len(response.succeeded) + Len(response.failed)
               = Len(SelectSeq(Batch, IsAddress))
        /\ Len(response.succeeded) + Len(response.failed) <= max_addresses
        /\ Len(response.unparsed)
               = Len(SelectSeq(Batch, NotAddress)) + Len(SelectSeq(Rest, NotAddress))
        /\ response.remaining = SelectSeq(Rest, IsAddress)
        /\ Len(response.remaining) <= Max(0, Len(request) - max_addresses)
        /\ Len(attempts) <= Len(Batch)
        /\ Len(response.succeeded) + Len(response.failed) + Len(response.unparsed)
               + Len(response.remaining) = Len(request)
        /\ Len(request) <= max_addresses => response.remaining = <<>>

\* more entries than the cap; after the first N a valid and an invalid one
C4_Witness ==
    /\ response # Absent
    /\ Len(request) > max_addresses
    /\ response.remaining # <<>>
    /\ SelectSeq(Rest, NotAddress) # <<>>
    /\ response.failed # <<>>

\* C5: every string that fails validation is in unparsed, never in remaining,
\* wherever it stands in the request; max_addresses = 1 and
\* [addrA, addrB, bad-addr] give succeeded [addrA], remaining [addrB],
\* unparsed [bad-addr], failed [].
C5_InvalidAreUnparsed ==
    response # Absent =>
        /\ response.unparsed = SelectSeq(request, NotAddress)
        /\ \A i \in 1..Len(response.remaining) : IsAddress(response.remaining[i])
        /\ (/\ max_addresses = 1
            /\ request = <<"addrA", "addrB", "bad-addr">>
            /\ response.failed = <<>>)
              => response = Response(<< <<"addrA", values>> >>, <<>>,
                                     <<"bad-addr">>, <<"addrB">>)

C5_Witness ==
    /\ response # Absent
    /\ max_addresses = 1
    /\ request = <<"addrA", "addrB", "bad-addr">>
    /\ response.succeeded # <<>>
    /\ response.unparsed = <<"bad-addr">>

\* the addresses of a list of pairs
Firsts(pairs) == [i \in 1..Len(pairs) |-> pairs[i][1]]

\* C6: every valid address among the processed entries gets exactly one
\* transfer attempt, whatever the outcome of the earlier ones; a failure is
\* recorded as (address, error text) in failed; an invalid string is never
\* handed to the transfer worker.
C6_FailureIsolation ==
    /\ \A i \in 1..Len(attempts) : IsAddress(attempts[i])
    /\ \A i \in 1..Len(failed) : failed[i][1] \in {attempts[k] : k \in 1..Len(attempts)}
                                 /\ failed[i][2] = "error"
    /\ response # Absent =>
          /\ attempts = SelectSeq(Batch, IsAddress)
          /\ Len(response.succeeded) + Len(response.failed) = Len(attempts)
          /\ \A i \in 1..Len(attempts) :
                \/ \E k \in 1..Len(response.succeeded) :
                       response.succeeded[k][1] = attempts[i]
                \/ \E k \in 1..Len(response.failed) :
                       response.failed[k][1] = attempts[i]

\* the first transfer failed and the second address was served all the same
C6_Witness ==
    /\ response # Absent
    /\ request = <<"addrA", "addrB">>
    /\ Firsts(response.failed) = <<"addrA">>
    /\ Firsts(response.succeeded) = <<"addrB">>

\* tokio polls the task that runs Serve::exec whenever a branch of its select!
\* is ready
FairSpec == Spec /\ WF_vars(ExecSelectSpawn) /\ WF_vars(ExecSelect)

(***************************************************************************)
(* Properties of Serve::exec.                                              *)
(***************************************************************************)
WorkerFailed == \E w \in Targets : workers[w] \in {"err", "panic"}

TaskEnded ==
    \/ client_task \in Ended
    \/ responder_task \in Ended
    \/ catch_up_task = "err"

\* C7: once a catch-up worker has failed (an error or a panic), Serve::exec
\* ends with an error, whatever the other tasks do.
C7_FailFast == (pc = "done" /\ WorkerFailed) => result \in {"err", "panic"}

\* there are catch-up workers, and every one of them has completed successfully
\* and been joined: the group has done all it had to do
CatchUpSucceeded == catch_up > 0 /\ catch_up_task = "pending"

\* C8 as stated: whenever one of the three groups has ended -- failed, or
\* exited successfully, the catch-up group included -- the select! of
\* Serve::exec has a ready branch, so Serve::exec resolves.
C8_AnyExitResolves ==
    (pc = "select" /\ client_task # "none" /\ (TaskEnded \/ CatchUpSucceeded))
        => SelectReady # {}

NoRestart ==
    /\ client_task \in Ended => client_task' = client_task
    /\ responder_task \in Ended => responder_task' = responder_task
    /\ catch_up_task \in {"err", "pending"} => catch_up_task' = catch_up_task
    /\ \A w \in Targets : workers[w] \in Ended \cup {"joined"} =>
           workers'[w] \in {workers[w], "joined"}

\* C8 amended: once the chat client service or the Responder loop has ended
\* (with success or failure) or the catch-up group has failed, Serve::exec
\* resolves; no ended task runs again; a catch-up group whose workers all
\* succeeded waits forever and by itself never resolves Serve::exec.
C8_Supervision ==
    /\ TaskEnded ~> (pc = "done")
    /\ [][NoRestart]_vars
    /\ [](catch_up_task = "pending" /\ pc = "done" =>
              client_task \in Ended \/ responder_task \in Ended)

C8_Witness ==
    /\ pc = "done"
    /\ responder_task = "err"
    /\ client_task = "running"
    /\ result = "err"

\* C9: whenever Serve::exec has ended -- at a failed startup statement or
\* because a supervised task ended -- its result is an error, never success.
C9_ExitStatus ==
    (pc = "done" /\ (failed_at # "none" \/ TaskEnded)) => result \in {"err", "panic"}

Started ==
    \/ sender # Absent
    \/ responder # Absent
    \/ handler # Absent
    \/ client # "none"
    \/ client_task # "none"
    \/ responder_task # "none"
    \/ catch_up_task # "none"
    \/ \E w \in Targets : workers[w] # "none"
    \/ sent > 0
    \/ served > 0

\* C10: the Sender, the Responder, the chat client and the catch-up workers
\* exist, and requests are enqueued or dequeued, only after the initial
\* synchronization has succeeded; a failed synchronization ends Serve::exec
\* with an error and nothing started.
C10_SyncFirst ==
    /\ Started => synced
    /\ failed_at = "sync" => pc = "done" /\ result = "err" /\ ~synced /\ ~Started

C10_Witness == synced /\ served > 0 /\ sent > 0

\* ---------------------------------------------------------------------------
\* Response::summary on its own: any Response, summarized once.

SeqsOver(S, n) == UNION {[1..k -> S] : k \in 0..n}

Addresses == {a \in RawStrings : IsAddress(a)}

Responses ==
    {Response(s, f, u, r) :
        s \in SeqsOver({<<a, responder.values>> : a \in Addresses}, MaxList),
        f \in SeqsOver({<<a, "error">> : a \in Addresses}, MaxList),
        u \in SeqsOver({a \in RawStrings : NotAddress(a)}, MaxList),
        r \in SeqsOver(Addresses, MaxList)}

ResponseSummary ==
    /\ spc = "idle"
    /\ response # Absent
    /\ \E mention \in AdminMentions : summary' = Summary(response, mention)
    /\ spc' = "done"
    /\ UNCHANGED <<serveVars, rateVars, xferVars, respVars, chanVars>>

InitSummary ==
    /\ rate_limit = DefaultRateLimit
    /\ reply_limit = DefaultReplyLimit
    /\ max_addresses = DefaultMaxAddresses
    /\ Serving
    /\ RateIdle
    /\ XferIdle
    /\ SumIdle
    /\ ChanIdle
    /\ request = <<>>
    /\ rpc = "idle"
    /\ idx = 1
    /\ succeeded = <<>>
    /\ failed = <<>>
    /\ unparsed = <<>>
    /\ remaining = <<>>
    /\ attempts = <<>>
    /\ response \in Responses

NextSummary == ResponseSummary

SpecSummary == InitSummary /\ [][NextSummary]_vars

(***************************************************************************)
(* The request queue (serve.rs 132-150, 164-170): the message handlers of  *)
(* the client and the catch-up workers send into it, the Responder         *)
(* receives from it.                                                       *)
(***************************************************************************)

\* Serve::exec at select! with every catch-up worker running
ServingBacklog ==
    /\ values = <<1>>
    /\ catch_up = Cardinality(Scanners)
    /\ source_address = 0
    /\ pc = "select"
    /\ result = "none"
    /\ failed_at = "none"
    /\ synced = TRUE
    /\ sender = SenderNew(0)
    /\ responder = ResponderNew(sender, max_addresses, values)
    /\ handler = HandlerNew(rate_limit, reply_limit)
    /\ client = "built"
    /\ client_data = {"RequestQueue"}
    /\ client_task = "running"
    /\ responder_task = "running"
    /\ catch_up_task = "joining"
    /\ workers = [w \in Targets |-> IF w \in Scanners THEN "running" ELSE "none"]
    /\ queued = 0
    /\ sent = 0
    /\ served = 0
    /\ dispensed = {}

\* a handle that sends into a queue of its own
DetachedHandle == "detached"

\* the receiving end, inside the Responder (serve.rs 133)
ResponderQueue == "send_requests"

\* send_requests.clone() put into the client's data (serve.rs 150)
ClientHandle == "send_requests"

\* send_requests.clone() given to Catchup::new (serve.rs 169)
CatchupHandle == "send_requests"

\* a catch-up scan that takes every message it reads
EligibleAlways(m) == TRUE

\* a message the catch-up scan makes a request for
Eligible(m) == m \notin answered

RECURSIVE Ascending(_)
Ascending(S) ==
    IF S = {} THEN <<>>
    ELSE LET m == CHOOSE x \in S : \A y \in S : x <= y
         IN <<m>> \o Ascending(S \ {m})

\* the next page of the history at or after the cursor
Page(cursor) == {m \in 1..posted : m >= cursor /\ m < cursor + catch_up_batch_size}

\* a new message is posted; its handler starts to send a request
LiveMessage ==
    /\ posted < NMessages
    /\ posted' = posted + 1
    /\ sending' = sending \cup {posted + 1}
    /\ started' = started \cup {Request(posted + 1, 0)}
    /\ UNCHANGED <<catch_up_batch_size, answered, queues, scan, skipped, enqueued,
                   dequeued, deliveries>>
    /\ UNCHANGED <<serveVars, rateVars, xferVars, respVars, sumVars>>

\* the handler's send() completes: there is room in the queue
LiveEnqueue(m) ==
    /\ m \in sending
    /\ Len(queues[ClientHandle]) < QueueCap
    /\ enqueued' = enqueued + 1
    /\ queues' = [queues EXCEPT ![ClientHandle] =
                    Append(@, [req |-> Request(m, 0), seq |-> enqueued'])]
    /\ sending' = sending \ {m}
    /\ UNCHANGED <<catch_up_batch_size, posted, answered, started, scan, skipped,
                   dequeued, deliveries>>
    /\ UNCHANGED <<serveVars, rateVars, xferVars, respVars, sumVars>>

\* Catchup::run fetches a page; with no message left the worker is done
CatchupFetch(w) ==
    /\ scan[w].pc = "fetch"
    /\ LET page == Page(scan[w].cursor)
           todo == Ascending({m \in page : Eligible(m)})
       IN /\ scan' = [scan EXCEPT ![w] =
                        IF page = {}
                           THEN [@ EXCEPT !.pc = "done"]
                           ELSE [pc |-> IF todo = <<>> THEN "fetch" ELSE "send",
                                 cursor |-> @.cursor + Cardinality(page),
                                 batch |-> todo]]
          /\ started' = IF todo = <<>> THEN started
                         ELSE started \cup {Request(Head(todo), w)}
          /\ skipped' = skipped \cup {<<w, m>> : m \in page \cap answered}
    /\ UNCHANGED <<catch_up_batch_size, posted, answered, queues, sending, enqueued,
                   dequeued, deliveries>>
    /\ UNCHANGED <<serveVars, rateVars, xferVars, respVars, sumVars>>

\* the worker's send() of the first request of its page completes
CatchupEnqueue(w) ==
    /\ scan[w].pc = "send"
    /\ Len(queues[CatchupHandle]) < QueueCap
    /\ enqueued' = enqueued + 1
    /\ queues' = [queues EXCEPT ![CatchupHandle] =
                    Append(@, [req |-> Request(Head(scan[w].batch), w), seq |-> enqueued'])]
    /\ LET rest == Tail(scan[w].batch)
       IN /\ scan' = [scan EXCEPT ![w] =
                        [@ EXCEPT !.batch = rest,
                                  !.pc = IF rest = <<>> THEN "fetch" ELSE "send"]]
          /\ started' = IF rest = <<>> THEN started
                         ELSE started \cup {Request(Head(rest), w)}
    /\ UNCHANGED <<catch_up_batch_size, posted, answered, sending, skipped, dequeued,
                   deliveries>>
    /\ UNCHANGED <<serveVars, rateVars, xferVars, respVars, sumVars>>

\* Responder::run receives the oldest request, dispenses and replies
ResponderRecv ==
    /\ queues[ResponderQueue] # <<>>
    /\ LET r == Head(queues[ResponderQueue])
       IN /\ dequeued' = Append(dequeued, r.seq)
          /\ deliveries' = [deliveries EXCEPT ![r.req] = @ + 1]
          /\ answered' = answered \cup {r.req.msg}
    /\ queues' = [queues EXCEPT ![ResponderQueue] = Tail(@)]
    /\ UNCHANGED <<catch_up_batch_size, posted, sending, started, scan, skipped,
                   enqueued>>
    /\ UNCHANGED <<serveVars, rateVars, xferVars, respVars, sumVars>>

InitChan ==
    /\ rate_limit = DefaultRateLimit
    /\ reply_limit = DefaultReplyLimit
    /\ max_addresses = DefaultMaxAddresses
    /\ ServingBacklog
    /\ RateIdle
    /\ XferIdle
    /\ RespIdle
    /\ SumIdle
    /\ catch_up_batch_size \in 1..MaxBatch
    /\ posted \in 0..NMessages
    /\ answered \in SUBSET (1..posted)
    /\ queues = [q \in Queues |-> <<>>]
    /\ sending = {}
    /\ started = {}
    /\ scan \in [Scanners -> {[pc |-> "fetch", cursor |-> k, batch |-> <<>>] : k \in Messages}]
    /\ skipped = {}
    /\ enqueued = 0
    /\ dequeued = <<>>
    /\ deliveries = [r \in AllRequests |-> 0]

NextChan ==
    \/ LiveMessage
    \/ \E m \in Messages : LiveEnqueue(m)
    \/ \E w \in Scanners : CatchupFetch(w)
    \/ \E w \in Scanners : CatchupEnqueue(w)
    \/ ResponderRecv

SpecChan == InitChan /\ [][NextChan]_vars

\* every worker scans the whole channel, in pages of MaxBatch messages
InitChanWhole ==
    /\ InitChan
    /\ catch_up_batch_size = MaxBatch
    /\ \A w \in Scanners : scan[w].cursor = 1

\* the queue hands its room to the waiting senders in turn, and the Responder
\* keeps receiving
FairSpecChan ==
    /\ InitChanWhole
    /\ [][NextChan]_vars
    /\ WF_vars(ResponderRecv)
    /\ \A m \in Messages : SF_vars(LiveEnqueue(m))
    /\ \A w \in Scanners : SF_vars(CatchupEnqueue(w))
    /\ \A w \in Scanners : WF_vars(CatchupFetch(w))

\* what the values check of Serve::exec has to refuse
BadValues == values = <<>> \/ \E i \in 1..Len(values) : values[i] = 0

\* C14: with an empty values list or a zero amount Serve::exec returns an
\* error at its first statement, before the token is read, the data directory
\* made, the chain synchronized or anything started; otherwise the Responder
\* is built with the values list unchanged and dispenses with that list only.
C14_ValuesValidated ==
    /\ BadValues =>
          /\ pc \in {"values", "done"}
          /\ pc = "done" => result = "err" /\ failed_at = "values"
          /\ ~synced /\ ~Started
    /\ ~BadValues =>
          /\ failed_at # "values"
          /\ responder # Absent => responder.values = values
          /\ \A v \in dispensed : v = values

C14_Witness ==
    \/ pc = "done" /\ values = <<1, 0>> /\ result = "err"
    \/ values = <<2, 1>> /\ dispensed = {<<2, 1>>}

\* C18: the Sender is built with the configured source address index.
C18_SourceSelection == sender # Absent => sender.source = source_address

\* a task that may enqueue a request exists
ProducerExists ==
    \/ client_task # "none"
    \/ catch_up_task # "none"
    \/ \E w \in Targets : workers[w] # "none"

\* C19: the sending handle of the request queue is in the client's data, and
\* the Responder exists, before the client is started and before the catch-up
\* group or any of its workers is spawned; no request is enqueued without it.
C19_HandleBeforeProducers ==
    /\ ProducerExists => "RequestQueue" \in client_data /\ responder # Absent
    /\ sent > 0 => "RequestQueue" \in client_data /\ responder # Absent
    /\ "RequestQueue" \in client_data => responder # Absent /\ client = "built"

C19_Witness ==
    /\ client_task = "running"
    /\ \E w \in Targets : workers[w] = "running"
    /\ sent = 2

\* every catch-up worker there is has completed successfully
WorkersSucceeded ==
    /\ catch_up_task \in {"joining", "pending"}
    /\ \A w \in Targets : workers[w] \in {"none", "ok", "joined"}

\* C20: once every catch-up worker has succeeded (also when there is none) the
\* catch-up task never fails and never resolves: once it waits it waits for
\* ever, and Serve::exec then ends only because the chat client service or the
\* Responder loop has ended.
C20_CatchUpWaitsForever ==
    [][ /\ WorkersSucceeded => catch_up_task' \in {"joining", "pending"}
        /\ catch_up_task = "pending" => catch_up_task' = "pending"
        /\ (WorkersSucceeded /\ pc # "done" /\ pc' = "done") =>
               client_task \in Ended \/ responder_task \in Ended ]_vars

C20_Witness ==
    /\ catch_up_task = "pending"
    /\ \E w \in Targets : workers[w] = "joined"
    /\ pc = "done"
    /\ responder_task = "err"

\* the text split at its "\n" pieces
RECURSIVE Lines(_)
Lines(t) ==
    IF t = <<>> THEN << <<>> >>
    ELSE LET rest == Lines(Tail(t))
         IN IF Head(t).kind = "nl"
               THEN << <<>> >> \o rest
               ELSE << <<Head(t)>> \o Head(rest) >> \o Tail(rest)

Headers == <<"succeeded_header", "failed_header", "unparsed_header", "remaining_header">>

\* the k-th list of the Response that was summarized
ListOf(k) ==
    CASE k = 1 -> response.succeeded
      [] k = 2 -> response.failed
      [] k = 3 -> response.unparsed
      [] k = 4 -> response.remaining

\* the piece that reports element e of the k-th list
LineOf(k, e) ==
    CASE k = 1 -> Code(e[1])
      [] k = 2 -> CodeError(e[1], e[2])
      [] k = 3 -> Code(e)
      [] k = 4 -> Code(e)

SameText(a, b) == a.kind = b.kind /\ a.arg = b.arg

\* the lines of L that hold a piece of the given kind
LinesWith(L, kind) ==
    {i \in 1..Len(L) : \E j \in 1..Len(L[i]) : L[i][j].kind = kind}

HowMany(kinds) == Cardinality({i \in 1..Len(summary) : summary[i].kind \in kinds})

\* C15: the summary has the header of a list exactly when the list is not
\* empty, the sections come in the order successes, failures, unparsed,
\* remaining, and the header of a list is followed by one line per element of
\* the list, in list order, and there is no other element line.
C15_SectionOrder ==
    spc = "done" =>
       LET L == Lines(summary)
       IN /\ \A k \in 1..4 :
                Cardinality(LinesWith(L, Headers[k])) = IF ListOf(k) # <<>> THEN 1 ELSE 0
          /\ \A k \in 1..4 : HowMany({Headers[k]}) = IF ListOf(k) # <<>> THEN 1 ELSE 0
          /\ \A k \in 1..4 : \A h \in LinesWith(L, Headers[k]) :
                /\ h + Len(ListOf(k)) <= Len(L)
                /\ \A n \in 1..Len(ListOf(k)) :
                      /\ L[h + n] # <<>>
                      /\ SameText(L[h + n][1], LineOf(k, ListOf(k)[n]))
          /\ \A j \in 1..4 : \A k \in (j + 1)..4 :
                \A hj \in LinesWith(L, Headers[j]) : \A hk \in LinesWith(L, Headers[k]) :
                   hj + Len(ListOf(j)) <= hk
          /\ HowMany({"code", "code_error"})
                = Len(response.succeeded) + Len(response.failed)
                     + Len(response.unparsed) + Len(response.remaining)

C15_Witness ==
    /\ spc = "done"
    /\ Len(response.succeeded) = 2
    /\ Len(response.failed) = 1
    /\ response.unparsed = <<>>
    /\ Len(response.remaining) = 2
    /\ HowMany({"code", "code_error"}) = 5

\* C16: when there are remaining addresses the number in the "only allowed to
\* send tokens to ... addresses at a time" line is the cap max_addresses.
C16_PrintedCap ==
    (spc = "done" /\ rpc = "idle" /\ response # Absent /\ response.remaining # <<>>) =>
       \A i \in 1..Len(summary) :
          summary[i].kind = "remaining_header" => summary[i].arg = <<max_addresses>>

\* C17: the summary has the line for the administrators exactly once when
\* there are failures, on the line right after the last failed address and
\* before the unparsed and the remaining sections, and not at all when there
\* is no failure.
C17_Escalation ==
    spc = "done" =>
       LET L == Lines(summary)
           E == LinesWith(L, "escalation")
       IN /\ HowMany({"escalation"}) = IF response.failed # <<>> THEN 1 ELSE 0
          /\ HowMany({"mention"}) = HowMany({"escalation"})
          /\ response.failed # <<>> =>
                \A h \in LinesWith(L, "failed_header") :
                   /\ E = {h + Len(response.failed) + 1}
                   /\ \A e \in E : Len(L[e]) = 2 /\ L[e][1].kind = "mention"
                                     /\ L[e][2].kind = "escalation"
                   /\ \A k \in {3, 4} : \A hk \in LinesWith(L, Headers[k]) :
                         hk > h + Len(response.failed) + 1

C17_Witness ==
    /\ spc = "done"
    /\ Len(response.failed) = 2
    /\ response.unparsed # <<>>
    /\ response.remaining # <<>>
    /\ HowMany({"escalation"}) = 1

\* the send() of request r has started and has not completed
PendingSend(r) ==
    \/ r.by = 0 /\ r.msg \in sending
    \/ r.by \in Scanners /\ scan[r.by].pc = "send" /\ Head(scan[r.by].batch) = r.msg

\* how often request r is in a queue
InQueue(r) ==
    Cardinality({qi \in Queues \X (1..QueueCap) :
                    qi[2] <= Len(queues[qi[1]]) /\ queues[qi[1]][qi[2]].req = r})

\* C11: the Responder receives the requests in exactly the order in which
\* their sends completed, whoever sent them: its i-th reception is the request
\* of the i-th completed send, and the queue holds the later ones in order.
C11_Fifo ==
    /\ \A i \in 1..Len(dequeued) : dequeued[i] = i
    /\ \A i \in 1..Len(queues[ResponderQueue]) :
          queues[ResponderQueue][i].seq = Len(dequeued) + i

C11_Witness ==
    /\ Len(queues[ResponderQueue]) = 2
    /\ queues[ResponderQueue][1].req.by # 0
    /\ queues[ResponderQueue][2].req.by = 0
    /\ Len(dequeued) >= 2
    /\ \E r \in AllRequests : r.by = 0 /\ deliveries[r] = 1

\* nothing dropped, nothing doubled: a request whose send() was called is in
\* exactly one place, a blocked send, the queue or the Responder
NoLossNoDuplicate ==
    /\ \A q \in Queues : Len(queues[q]) <= QueueCap
    /\ \A r \in AllRequests :
          (IF PendingSend(r) THEN 1 ELSE 0) + InQueue(r) + deliveries[r]
              = IF r \in started THEN 1 ELSE 0
    /\ enqueued = Len(queues[ResponderQueue]) + Len(dequeued)

AllDelivered == \A r \in started : deliveries[r] = 1

\* C12: the queue never holds more than its capacity, a request is never in
\* two places or received twice, every completed send is in the queue or was
\* received, and every request whose send has started is received by the
\* Responder, as long as the Responder keeps receiving.
C12_BoundedLossless ==
    /\ []NoLossNoDuplicate
    /\ []<>AllDelivered

C12_Witness ==
    /\ Len(queues[ResponderQueue]) = QueueCap
    /\ sending # {}
    /\ \E w \in Scanners : scan[w].pc = "send"
    /\ Len(dequeued) >= 1

\* C13: a catch-up worker that reads a message which has been answered makes
\* no request for it: none is waiting in its page, in the queue, or received
\* by the Responder, with any number of workers and with live messages.
C13_NoReplay ==
    \A w \in Scanners : \A m \in Messages :
       <<w, m>> \in skipped =>
          /\ \A i \in 1..Len(scan[w].batch) : scan[w].batch[i] # m
          /\ InQueue(Request(m, w)) = 0
          /\ deliveries[Request(m, w)] = 0

C13_Witness ==
    \E w \in Scanners : \E v \in Scanners : \E m \in Messages :
       /\ v # w
       /\ <<w, m>> \in skipped
       /\ deliveries[Request(m, v)] = 1
       /\ sending # {}

====
